---- MODULE Spec2Model ----
(***************************************************************************)
(* A model of the quilt virtual machine (src/vm.rs): the VM state, the     *)
(* four-way direction algebra, the candidate list of neighbouring pixels,  *)
(* the road/bounce selector get_next_instruction, the start locator        *)
(* find_start and the entry point execute.                                 *)
(*                                                                         *)
(* Matrix, MatrixPoint, Pixel and Instruction are defined in the crate     *)
(* root, which is not part of the sources at hand; Matrix::go and          *)
(* Pixel::as_instruction are modelled from the written design (4.1, 6).    *)
(***************************************************************************)
EXTENDS Integers, Sequences, FiniteSets, TLC

VARIABLES vm, ret, op, arg

vars == <<vm, ret, op, arg>>

(***************************************************************************)
(* Bounds of the model.                                                    *)
(***************************************************************************)
\* a grid has at most MaxRows rows (rows may differ in length, or be empty)
MaxRows == 3
\* a grid has at most MaxCells pixels in all
MaxCells == 4

(***************************************************************************)
(* Pixels and the pixel -> instruction table (Pixel::as_instruction).      *)
(***************************************************************************)
\* the numeral the tests of find_start use for a Start pixel
StartPixel == 300
\* a numeral that the table maps to Road
RoadPixel == 180
\* a numeral that the table maps to neither Start nor Road
OtherPixel == 36

Pixels == {StartPixel, RoadPixel, OtherPixel}

as_instruction(p) ==
    IF p = StartPixel THEN "Start"
    ELSE IF p = RoadPixel THEN "Road"
    ELSE "Other"

(***************************************************************************)
(* Direction (vm.rs 15-41).                                                *)
(***************************************************************************)
Direction == {"North", "East", "South", "West"}

\* an opposite whose East arm repeats the pattern it matches
opposite_east_slip(d) ==
    CASE d = "North" -> "South"
      [] d = "West"  -> "East"
      [] d = "South" -> "North"
      [] d = "East"  -> "East"

opposite(d) ==
    CASE d = "North" -> "South"
      [] d = "West"  -> "East"
      [] d = "South" -> "North"
      [] d = "East"  -> "West"

\* a rotation written the wrong way round
clockwise(d) ==
    CASE d = "North" -> "East"
      [] d = "East"  -> "South"
      [] d = "South" -> "West"
      [] d = "West"  -> "North"

counter_clockwise(d) ==
    CASE d = "North" -> "West"
      [] d = "West"  -> "South"
      [] d = "South" -> "East"
      [] d = "East"  -> "North"

(***************************************************************************)
(* Matrix<Pixel>: a sequence of rows, each a sequence of pixels.  A        *)
(* MatrixPoint is <<column, row>>, both zero-based.  An Option is a        *)
(* sequence of length 0 (None) or 1 (Some).                                *)
(***************************************************************************)
MatrixPoint(col, row) == <<col, row>>

Col(p) == p[1]
Row(p) == p[2]

\* one step from p in direction d; rows are numbered top to bottom
Step(p, d) ==
    CASE d = "North" -> MatrixPoint(Col(p), Row(p) - 1)
      [] d = "South" -> MatrixPoint(Col(p), Row(p) + 1)
      [] d = "East"  -> MatrixPoint(Col(p) + 1, Row(p))
      [] d = "West"  -> MatrixPoint(Col(p) - 1, Row(p))

\* p is the coordinate of a cell of m (each row has its own length)
InBounds(m, p) ==
    /\ Row(p) >= 0 /\ Row(p) < Len(m)
    /\ Col(p) >= 0 /\ Col(p) < Len(m[Row(p) + 1])

At(m, p) == m[Row(p) + 1][Col(p) + 1]

\* Matrix::go: the pixel one step from p in direction d, if there is one
go(m, p, d) ==
    IF InBounds(m, Step(p, d)) THEN <<At(m, Step(p, d))>> ELSE <<>>

(***************************************************************************)
(* VM (vm.rs 4-13) and VM::default (vm.rs 43-54).                          *)
(***************************************************************************)
TAPE_SIZE == 360

ZeroTape == [i \in 0 .. TAPE_SIZE - 1 |-> 0]

default ==
    [ stack        |-> <<>>,
      register_a   |-> 0,
      tape         |-> ZeroTape,
      direction    |-> "East",
      instructions |-> <<>>,
      pc           |-> MatrixPoint(0, 0) ]

new == default

(***************************************************************************)
(* VM::find_start (vm.rs 119-130): the two nested loops, as a scan that    *)
(* continues from row r, column c.                                         *)
(***************************************************************************)
RECURSIVE ScanStart(_, _, _)
ScanStart(m, r, c) ==
    IF r >= Len(m) THEN MatrixPoint(0, 0)
    ELSE IF c >= Len(m[r + 1]) THEN ScanStart(m, r + 1, 0)
    ELSE IF as_instruction(m[r + 1][c + 1]) = "Start" THEN MatrixPoint(c, r)
    ELSE ScanStart(m, r, c + 1)

\* a locator that returns MatrixPoint(row_idx, col_idx)
find_start_swapped(v) ==
    LET p == ScanStart(v.instructions, 0, 0)
    IN  MatrixPoint(Row(p), Col(p))

find_start(v) == ScanStart(v.instructions, 0, 0)

(***************************************************************************)
(* VM::get_next_pixels (vm.rs 92-113): the candidates <<direction, pixel>> *)
(* in the order forward, right, left, back.                                *)
(***************************************************************************)
Probe(v, d) ==
    LET point == go(v.instructions, v.pc, d)
    IN  IF point /= <<>> THEN << <<d, point[1]>> >> ELSE <<>>

\* a candidate list that probes left before right
get_next_pixels_left_first(v) ==
    LET dir == v.direction
    IN  Probe(v, dir)
          \o Probe(v, counter_clockwise(dir))
          \o Probe(v, opposite(counter_clockwise(dir)))
          \o Probe(v, opposite(dir))

\* a candidate list without the probe behind the cursor
get_next_pixels_no_back(v) ==
    LET dir == v.direction
    IN  Probe(v, dir)
          \o Probe(v, opposite(counter_clockwise(dir)))
          \o Probe(v, counter_clockwise(dir))

get_next_pixels(v) ==
    LET dir == v.direction
    IN  Probe(v, dir)
          \o Probe(v, opposite(counter_clockwise(dir)))
          \o Probe(v, counter_clockwise(dir))
          \o Probe(v, opposite(dir))

(***************************************************************************)
(* VM::get_next_instruction (vm.rs 70-86).  Indexing the empty candidate   *)
(* list panics.  Otherwise the function returns the pixel of one entry of  *)
(* the list; the model keeps that entry's direction beside the pixel.      *)
(***************************************************************************)
Panic == [kind |-> "panic"]
Returned(entry) == [kind |-> "pixel", dir |-> entry[1], pixel |-> entry[2]]
Unit == [kind |-> "unit"]

IsRoad(entry) == as_instruction(entry[2]) = "Road"

\* next_pixels.iter().filter(..).next(): the first Road entry, as an Option
FirstRoad(next_pixels) ==
    LET roads == SelectSeq(next_pixels, IsRoad)
    IN  IF roads = <<>> THEN <<>> ELSE <<roads[1]>>

\* a selector that keeps going straight whenever the forward pixel exists
get_next_instruction_ahead(v) ==
    LET next_pixels == get_next_pixels(v)
    IN  IF next_pixels = <<>> THEN Panic
        ELSE
          LET first      == next_pixels[1]
              first_road == FirstRoad(next_pixels)
              bounce     == next_pixels[Len(next_pixels)]
          IN  IF first[1] = v.direction THEN Returned(first)
              ELSE IF first_road /= <<>>
              THEN IF first_road[1][1] /= opposite(v.direction)
                   THEN Returned(first_road[1])
                   ELSE IF first[1] = v.direction
                        THEN Returned(first)
                        ELSE Returned(bounce)
              ELSE Returned(bounce)

\* a selector that takes the first road even when it lies behind
get_next_instruction_any_road(v) ==
    LET next_pixels == get_next_pixels(v)
    IN  IF next_pixels = <<>> THEN Panic
        ELSE
          LET first      == next_pixels[1]
              first_road == FirstRoad(next_pixels)
              bounce     == next_pixels[Len(next_pixels)]
          IN  IF first_road /= <<>>
              THEN Returned(first_road[1])
              ELSE Returned(bounce)

\* a selector that falls back to the first candidate instead of the last
get_next_instruction_no_bounce(v) ==
    LET next_pixels == get_next_pixels(v)
    IN  IF next_pixels = <<>> THEN Panic
        ELSE
          LET first      == next_pixels[1]
              first_road == FirstRoad(next_pixels)
              bounce     == next_pixels[Len(next_pixels)]
          IN  IF first_road /= <<>>
              THEN IF first_road[1][1] /= opposite(v.direction)
                   THEN Returned(first_road[1])
                   ELSE IF first[1] = v.direction
                        THEN Returned(first)
                        ELSE Returned(first)
              ELSE Returned(first)

\* a selector that answers a default pixel when there is no candidate
get_next_instruction_default(v) ==
    LET next_pixels == get_next_pixels(v)
    IN  IF next_pixels = <<>> THEN Returned(<<v.direction, 0>>)
        ELSE
          LET first      == next_pixels[1]
              first_road == FirstRoad(next_pixels)
              bounce     == next_pixels[Len(next_pixels)]
          IN  IF first_road /= <<>>
              THEN IF first_road[1][1] /= opposite(v.direction)
                   THEN Returned(first_road[1])
                   ELSE IF first[1] = v.direction
                        THEN Returned(first)
                        ELSE Returned(bounce)
              ELSE Returned(bounce)

\* a selector whose bounce consults the accumulator register
get_next_instruction_register(v) ==
    LET next_pixels == get_next_pixels(v)
    IN  IF next_pixels = <<>> THEN Panic
        ELSE
          LET first      == next_pixels[1]
              first_road == FirstRoad(next_pixels)
              bounce     == next_pixels[Len(next_pixels)]
          IN  IF first_road /= <<>>
              THEN IF first_road[1][1] /= opposite(v.direction)
                   THEN Returned(first_road[1])
                   ELSE IF first[1] = v.direction
                        THEN Returned(first)
                        ELSE IF v.register_a = 0 THEN Returned(bounce) ELSE Returned(first)
              ELSE IF v.register_a = 0 THEN Returned(bounce) ELSE Returned(first)

\* a selector that takes the head of the list whenever the road is behind
get_next_instruction_side_move(v) ==
    LET next_pixels == get_next_pixels(v)
    IN  IF next_pixels = <<>> THEN Panic
        ELSE
          LET first      == next_pixels[1]
              first_road == FirstRoad(next_pixels)
              bounce     == next_pixels[Len(next_pixels)]
          IN  IF first_road /= <<>>
              THEN IF first_road[1][1] /= opposite(v.direction)
                   THEN Returned(first_road[1])
                   ELSE Returned(first)
              ELSE Returned(bounce)

get_next_instruction(v) ==
    LET next_pixels == get_next_pixels(v)
    IN  IF next_pixels = <<>> THEN Panic
        ELSE
          LET first      == next_pixels[1]
              first_road == FirstRoad(next_pixels)
              bounce     == next_pixels[Len(next_pixels)]
          IN  IF first_road /= <<>>
              THEN IF first_road[1][1] /= opposite(v.direction)
                   THEN Returned(first_road[1])
                   ELSE IF first[1] = v.direction
                        THEN Returned(first)
                        ELSE Returned(bounce)
              ELSE Returned(bounce)

(***************************************************************************)
(* VM::execute (vm.rs 61-67): installs the grid and locates the start.     *)
(***************************************************************************)
\* an execute that locates the start before it installs the grid
execute_locate_first(v, instructions) ==
    LET located == [v EXCEPT !.pc = find_start(v)]
    IN  [located EXCEPT !.instructions = instructions]

execute(v, instructions) ==
    LET installed == [v EXCEPT !.instructions = instructions]
    IN  [installed EXCEPT !.pc = find_start(installed)]

(***************************************************************************)
(* The inputs.                                                             *)
(***************************************************************************)
\* the grids of at most `rows` rows and at most `cells` pixels in all
RECURSIVE GridsUpTo(_, _)
GridsUpTo(rows, cells) ==
    IF rows = 0 THEN { <<>> }
    ELSE { <<>> } \cup
         UNION { { <<row>> \o rest : row \in [1 .. k -> Pixels],
                                     rest \in GridsUpTo(rows - 1, cells - k) } :
                 k \in 0 .. cells }

Grids == GridsUpTo(MaxRows, MaxCells)

\* the grids of the runs of one VM, where every grid follows every other
RunGrids == GridsUpTo(MaxRows, MaxCells - 2)

Points == (0 .. MaxCells - 1) \X (0 .. MaxRows - 1)

\* the stack, register and tape of a new VM, and contents that a dispatch
\* could have left behind
NewRegisters ==
    { [stack |-> default.stack, register_a |-> default.register_a,
       tape |-> default.tape] }

UsedTape == [ZeroTape EXCEPT ![0] = 7]

Registers ==
    NewRegisters \cup { [stack |-> <<7>>, register_a |-> 7, tape |-> UsedTape] }

\* the values pc may have over the grid m: the origin, or a cell of m
PointsOf(m) == { q \in Points : q = MatrixPoint(0, 0) \/ InBounds(m, q) }

\* vm is a VM over one of the grids, with one of the register contents
AnyVM(registers, grids) ==
    \E rg \in registers, d \in Direction, m \in grids :
        \E p \in PointsOf(m) :
            vm = [ stack        |-> rg.stack,
                   register_a   |-> rg.register_a,
                   tape         |-> rg.tape,
                   direction    |-> d,
                   instructions |-> m,
                   pc           |-> p ]

\* grids that an earlier run may have left installed
PriorGrids ==
    { <<>>,
      << <<OtherPixel, StartPixel>> >>,
      << <<RoadPixel>>, <<OtherPixel, OtherPixel>> >> }

(***************************************************************************)
(* The program: a VM is created, and execute and get_next_instruction are  *)
(* called on it in any order.                                              *)
(***************************************************************************)
Init ==
    /\ vm = new
    /\ ret = Unit
    /\ op = "new"
    /\ arg = <<>>

\* a panic ends the program: nothing is called after it
Running == ret /= Panic

Execute(g) ==
    /\ Running
    /\ vm' = execute(vm, g)
    /\ ret' = Unit
    /\ op' = "execute"
    /\ arg' = g

GetNextInstruction ==
    /\ Running
    /\ ret' = get_next_instruction(vm)
    /\ op' = "get_next_instruction"
    /\ UNCHANGED <<vm, arg>>

Next ==
    \/ \E g \in RunGrids : Execute(g)
    \/ GetNextInstruction

Spec == Init /\ [][Next]_vars

(***************************************************************************)
(* get_next_instruction as a function of the VM it is called on: any grid, *)
(* any heading, and a pc that is the origin or a cell of the grid.         *)
(***************************************************************************)
InitSel ==
    /\ AnyVM(NewRegisters, Grids)
    /\ ret = Unit
    /\ op = "input"
    /\ arg = <<>>

NextSel == GetNextInstruction

SpecSel == InitSel /\ [][NextSel]_vars

(***************************************************************************)
(* execute as a function of the VM it is called on and of the grid: it is  *)
(* applied once to each prior VM.                                          *)
(***************************************************************************)
InitExec ==
    /\ AnyVM(Registers, PriorGrids)
    /\ ret = Unit
    /\ op = "input"
    /\ arg = <<>>

NextExec == op = "input" /\ \E g \in Grids : Execute(g)

SpecExec == InitExec /\ [][NextExec]_vars

(***************************************************************************)
(* The movement step of the design (4.3, 4.5 c), which the loop of execute *)
(* (vm.rs 65-66) does not contain yet: the selection is applied to the     *)
(* cursor, pc becomes the selected neighbour and direction the direction   *)
(* taken.  Runs of a VM with this step in place of the bare call.          *)
(***************************************************************************)
Move ==
    /\ Running
    /\ ret' = get_next_instruction(vm)
    /\ vm' = IF ret' = Panic THEN vm
             ELSE [vm EXCEPT !.direction = ret'.dir,
                             !.pc = Step(vm.pc, ret'.dir)]
    /\ op' = "move"
    /\ UNCHANGED arg

NextMove ==
    \/ \E g \in RunGrids : Execute(g)
    \/ Move

SpecMove == Init /\ [][NextMove]_vars

(***************************************************************************)
(* What the claims speak of, said without the operators of the program.    *)
(***************************************************************************)
RightOf(d) ==
    CASE d = "North" -> "East"
      [] d = "East"  -> "South"
      [] d = "South" -> "West"
      [] d = "West"  -> "North"

LeftOf(d) ==
    CASE d = "North" -> "West"
      [] d = "West"  -> "South"
      [] d = "South" -> "East"
      [] d = "East"  -> "North"

BackOf(d) ==
    CASE d = "North" -> "South"
      [] d = "South" -> "North"
      [] d = "East"  -> "West"
      [] d = "West"  -> "East"

\* the neighbour of pc in direction d exists
NeighbourIn(d) == InBounds(vm.instructions, Step(vm.pc, d))

NeighbourAt(d) == At(vm.instructions, Step(vm.pc, d))

\* the neighbour of pc in direction d exists and resolves to Road
RoadIn(d) == NeighbourIn(d) /\ as_instruction(NeighbourAt(d)) = "Road"

\* get_next_instruction returned the neighbour of pc in direction d
ReturnedNeighbour(d) ==
    ret = [kind |-> "pixel", dir |-> d, pixel |-> NeighbourAt(d)]

Called == op = "get_next_instruction"

PcInBounds == InBounds(vm.instructions, vm.pc)

Fwd == vm.direction
Rgt == RightOf(vm.direction)
Lft == LeftOf(vm.direction)
Bck == BackOf(vm.direction)

\* C1: when the forward, right or left neighbour of an in-bounds pc is a
\* Road, get_next_instruction returns the first Road neighbour in the
\* order forward, right, left, whatever non-Road neighbours come before it.
RoadPreference ==
    (Called /\ PcInBounds /\ (RoadIn(Fwd) \/ RoadIn(Rgt) \/ RoadIn(Lft)))
        => ReturnedNeighbour(IF RoadIn(Fwd) THEN Fwd
                             ELSE IF RoadIn(Rgt) THEN Rgt ELSE Lft)

\* the left road was taken past a forward and a right neighbour that are
\* in bounds and are not roads
RoadPreferenceWitness ==
    /\ Called /\ PcInBounds
    /\ NeighbourIn(Fwd) /\ ~RoadIn(Fwd)
    /\ NeighbourIn(Rgt) /\ ~RoadIn(Rgt)
    /\ RoadIn(Lft)
    /\ ReturnedNeighbour(Lft)

\* C2: when the only Road neighbour of an in-bounds pc is the one behind
\* the cursor and the forward neighbour exists, get_next_instruction
\* returns the forward neighbour.
BehindRoadException ==
    (/\ Called /\ PcInBounds
     /\ RoadIn(Bck) /\ ~RoadIn(Fwd) /\ ~RoadIn(Rgt) /\ ~RoadIn(Lft)
     /\ NeighbourIn(Fwd))
        => ReturnedNeighbour(Fwd)

BehindRoadExceptionWitness ==
    /\ Called /\ PcInBounds
    /\ RoadIn(Bck) /\ ~RoadIn(Fwd) /\ ~RoadIn(Rgt) /\ ~RoadIn(Lft)
    /\ NeighbourIn(Fwd) /\ NeighbourIn(Lft)
    /\ ReturnedNeighbour(Fwd)

\* C3: when an in-bounds pc has a neighbour and none of its neighbours is
\* a Road, get_next_instruction returns the last entry of the candidate
\* list, which is the in-bounds neighbour of the lowest priority (back,
\* then left, then right, then forward); at a dead end, the back neighbour.
BounceFallback ==
    (/\ Called /\ PcInBounds
     /\ get_next_pixels(vm) /= <<>>
     /\ ~RoadIn(Fwd) /\ ~RoadIn(Rgt) /\ ~RoadIn(Lft) /\ ~RoadIn(Bck))
        => /\ ret = Returned(get_next_pixels(vm)[Len(get_next_pixels(vm))])
           /\ ReturnedNeighbour(IF NeighbourIn(Bck) THEN Bck
                                ELSE IF NeighbourIn(Lft) THEN Lft
                                ELSE IF NeighbourIn(Rgt) THEN Rgt ELSE Fwd)
           /\ (~NeighbourIn(Fwd) /\ ~NeighbourIn(Rgt) /\ ~NeighbourIn(Lft))
                 => ReturnedNeighbour(Bck)

\* a dead end: only the neighbour behind exists, it is no road, and it is
\* returned
BounceFallbackWitness ==
    /\ Called /\ PcInBounds
    /\ ~NeighbourIn(Fwd) /\ ~NeighbourIn(Rgt) /\ ~NeighbourIn(Lft)
    /\ NeighbourIn(Bck) /\ ~RoadIn(Bck)
    /\ ReturnedNeighbour(Bck)

\* C4: when none of the four neighbours of pc exists, get_next_instruction
\* panics: it returns no pixel.
FatalDegenerateCase ==
    (/\ Called
     /\ ~NeighbourIn(Fwd) /\ ~NeighbourIn(Rgt)
     /\ ~NeighbourIn(Lft) /\ ~NeighbourIn(Bck))
        => ret = Panic

\* the grid of one pixel
FatalDegenerateCaseWitness ==
    /\ Called
    /\ Len(vm.instructions) = 1 /\ Len(vm.instructions[1]) = 1
    /\ vm.pc = MatrixPoint(0, 0)
    /\ vm.direction = "South"
    /\ ret = Panic

\* the Start cells of a grid, and the row-major order of coordinates
StartCells(m) ==
    { p \in Points : InBounds(m, p) /\ as_instruction(At(m, p)) = "Start" }

RowMajorBefore(p, q) ==
    Row(p) < Row(q) \/ (Row(p) = Row(q) /\ Col(p) < Col(q))

\* C5: the start that execute locates with find_start is the first Start
\* cell of the grid in row-major order, and (0,0) when the grid has none.
StartScanOrder ==
    op = "execute" =>
        /\ vm.pc = find_start(vm)
        /\ IF StartCells(vm.instructions) = {}
           THEN find_start(vm) = MatrixPoint(0, 0)
           ELSE /\ find_start(vm) \in StartCells(vm.instructions)
                /\ \A q \in StartCells(vm.instructions) :
                      ~RowMajorBefore(q, find_start(vm))

\* a ragged grid with two Start cells: the one at the end of the first row
\* is located, not the one that opens the second row
StartScanOrderWitness ==
    /\ op = "execute"
    /\ vm.instructions = << <<OtherPixel, RoadPixel, StartPixel>>,
                            <<StartPixel>> >>
    /\ vm.pc = MatrixPoint(2, 0)

\* C6: a call of get_next_instruction that returns a pixel leaves the VM
\* heading in the direction taken, on the neighbour it selected.
MovementUpdate ==
    [][(op' = "get_next_instruction" /\ ret'.kind = "pixel")
          => (/\ vm'.direction = ret'.dir
              /\ vm'.pc = Step(vm.pc, ret'.dir))]_vars

\* C7: once execute has been called, pc is the coordinate of a cell of the
\* installed grid.
PcValid == op \in {"execute", "get_next_instruction"} => PcInBounds

DirectionAlgebra ==
    LET d == vm.direction
    IN  /\ opposite(opposite(d)) = d
        /\ counter_clockwise(counter_clockwise(
             counter_clockwise(counter_clockwise(d)))) = d
        /\ counter_clockwise(d) /= d
        /\ counter_clockwise(d) = LeftOf(d)

\* heading North, the selector took the neighbour to the West, the
\* counter-clockwise turn
DirectionAlgebraWitness ==
    /\ Called /\ PcInBounds
    /\ vm.direction = "North"
    /\ ret.kind = "pixel" /\ ret.dir = "West"
    /\ counter_clockwise(vm.direction) = ret.dir

\* C10: what get_next_instruction returns does not change when the stack,
\* the register and the tape of the VM are replaced by others.
SelectorDeterminism ==
    Called =>
        \A rg \in Registers :
            get_next_instruction([vm EXCEPT !.stack = rg.stack,
                                            !.register_a = rg.register_a,
                                            !.tape = rg.tape]) = ret

\* a bounce between several candidates, which a VM with a used stack,
\* register and tape repeats
SelectorDeterminismWitness ==
    /\ Called /\ PcInBounds
    /\ Len(get_next_pixels(vm)) > 1
    /\ ~RoadIn(Fwd) /\ ~RoadIn(Rgt) /\ ~RoadIn(Lft) /\ ~RoadIn(Bck)
    /\ ret.kind = "pixel"
    /\ \E rg \in Registers :
          /\ rg.stack /= vm.stack
          /\ rg.register_a /= vm.register_a
          /\ rg.tape /= vm.tape
          /\ get_next_instruction([vm EXCEPT !.stack = rg.stack,
                                             !.register_a = rg.register_a,
                                             !.tape = rg.tape]) = ret

\* the entry of the candidate list for direction d: present when the
\* neighbour exists
Candidate(d) ==
    IF NeighbourIn(d) THEN << <<d, NeighbourAt(d)>> >> ELSE <<>>

\* C11: get_next_pixels returns the in-bounds ones of the four probes
\* forward, right, left, back, in that order, each with the pixel one step
\* from pc in its direction; no direction twice, at most four entries.
CandidateList ==
    Called =>
        LET next_pixels == get_next_pixels(vm)
        IN  /\ next_pixels = Candidate(Fwd) \o Candidate(Rgt)
                               \o Candidate(Lft) \o Candidate(Bck)
            /\ Len(next_pixels) <= 4
            /\ \A i, j \in 1 .. Len(next_pixels) :
                  next_pixels[i][1] = next_pixels[j][1] => i = j

\* three of the four neighbours exist, the right and the left one among
\* them: the list has three entries
CandidateListWitness ==
    /\ Called /\ PcInBounds
    /\ NeighbourIn(Rgt) /\ NeighbourIn(Lft)
    /\ Len(get_next_pixels(vm)) = 3
    /\ ret.kind = "pixel"

\* C12: when the only Road neighbour of an in-bounds pc is behind the
\* cursor and there is no forward neighbour, get_next_instruction returns
\* the last candidate, the road behind, whatever side neighbours exist.
BounceOverSideMoves ==
    (/\ Called /\ PcInBounds
     /\ RoadIn(Bck) /\ ~RoadIn(Rgt) /\ ~RoadIn(Lft)
     /\ ~NeighbourIn(Fwd))
        => /\ ReturnedNeighbour(Bck)
           /\ ret = Returned(get_next_pixels(vm)[Len(get_next_pixels(vm))])

\* the road behind was taken although a side neighbour exists
BounceOverSideMovesWitness ==
    /\ Called /\ PcInBounds
    /\ RoadIn(Bck) /\ ~RoadIn(Rgt) /\ ~RoadIn(Lft)
    /\ ~NeighbourIn(Fwd)
    /\ (NeighbourIn(Rgt) \/ NeighbourIn(Lft))
    /\ ReturnedNeighbour(Bck)

\* a grid of one or more rows of one length
Rectangular(m) ==
    /\ Len(m) >= 1
    /\ \A r \in 1 .. Len(m) : Len(m[r]) = Len(m[1])

\* C13: on a rectangular grid of at least two cells, from an in-bounds pc,
\* the candidate list is not empty and get_next_instruction returns an
\* in-bounds neighbour of pc: it does not panic.
NoFaultOnNonDegenerate ==
    (/\ Called /\ PcInBounds
     /\ Rectangular(vm.instructions)
     /\ Len(vm.instructions) * Len(vm.instructions[1]) >= 2)
        => /\ get_next_pixels(vm) /= <<>>
           /\ ret /= Panic
           /\ \E d \in Direction : NeighbourIn(d) /\ ReturnedNeighbour(d)

\* a corner of a two by two grid, heading out of the grid
NoFaultOnNonDegenerateWitness ==
    /\ Called
    /\ Rectangular(vm.instructions)
    /\ Len(vm.instructions) = 2 /\ Len(vm.instructions[1]) = 2
    /\ vm.pc = MatrixPoint(1, 0) /\ vm.direction = "East"
    /\ ret.kind = "pixel"

\* C15: the right direction that get_next_pixels probes,
\* opposite(counter_clockwise(d)), is counter_clockwise(opposite(d)); the
\* left direction is the opposite of the right one; forward, right, left
\* and back are the four directions, each once.
DerivedDirections ==
    LET d     == vm.direction
        right == opposite(counter_clockwise(d))
        left  == counter_clockwise(d)
        back  == opposite(d)
    IN  /\ right = counter_clockwise(opposite(d))
        /\ left = opposite(right)
        /\ Cardinality({d, right, left, back}) = 4
        /\ {d, right, left, back} = Direction

\* heading West, the selector took the neighbour on the right, which is
\* the second probe of get_next_pixels
DerivedDirectionsWitness ==
    /\ Called /\ PcInBounds
    /\ vm.direction = "West"
    /\ ret.kind = "pixel"
    /\ ret.dir = opposite(counter_clockwise(vm.direction))
    /\ ret.dir = "North"

\* the first Start cell of m in row-major order, the origin without one
FirstStart(m) ==
    IF StartCells(m) = {} THEN MatrixPoint(0, 0)
    ELSE CHOOSE p \in StartCells(m) :
            \A q \in StartCells(m) : ~RowMajorBefore(q, p)

\* C14: when execute returns, the installed grid is the supplied grid and
\* pc is the start of the supplied grid.
ExecuteInstallsAndLocates ==
    op = "execute" =>
        /\ vm.instructions = arg
        /\ vm.pc = find_start([new EXCEPT !.instructions = arg])
        /\ vm.pc = FirstStart(arg)

\* execute on a VM that was heading North, with a grid whose start is not
\* the origin
ExecuteInstallsAndLocatesWitness ==
    /\ op = "execute"
    /\ vm.direction = "North"
    /\ arg = << <<OtherPixel>>, <<RoadPixel, StartPixel>> >>
    /\ vm.instructions = arg
    /\ vm.pc = MatrixPoint(1, 1)

\* no cell of the grid resolves to Road
RoadFree(m) ==
    \A p \in Points : InBounds(m, p) => as_instruction(At(m, p)) /= "Road"

Moved == op = "move" /\ ret.kind = "pixel"

\* C16: on a grid without Road cells, every movement step after the first
\* reverses the step before it: it leads back to the cell that the cursor
\* came from, so that pc after n+2 steps is pc after n steps.
RoadFreeOscillation ==
    [][(RoadFree(vm.instructions) /\ Moved /\ Moved')
          => (/\ vm'.direction = opposite(vm.direction)
              /\ vm'.pc = Step(vm.pc, opposite(vm.direction)))]_vars

====
